---- MODULE Spec2Model ----
(***************************************************************************)
(* Model of drizzle-kit/src/cli/commands/migrate.ts: the three rename      *)
(* resolvers (promptSchemasConflict, promptColumnsConflicts,               *)
(* promptNamedWithSchemasConflict), the migration-generation commands      *)
(* (prepareAndMigratePg / Mysql / Sqlite), the migration writer            *)
(* (writeResult) and the journal builder (embeddedMigrations).             *)
(***************************************************************************)
EXTENDS Integers, Sequences, FiniteSets, TLC

VARIABLES
    fn,            \* the resolver function being executed, or "none"
    pc,            \* its position: "idle", "render" (awaiting the oracle), "returned"
    newItems,      \* first array argument of the resolver
    missingItems,  \* second array argument of the resolver
    index,         \* loop variable `index`
    leftMissing,   \* loop variable `leftMissing`
    result,        \* the `result` object; after return, the value returned
    promptData,    \* the options handed to the pending render() call
    rendered,      \* every promptData handed to render() so far, in call order
    answers,       \* every `data` render() resolved with so far, in call order
    exitCode,      \* <<>> while the process runs, <<code>> after process.exit(code)
    units,         \* outFolder: directory name -> [snapshot, sql] (its two files)
    manifest,      \* outFolder/migrations.js: "absent" or its content
    now,           \* the clock: seconds since the epoch
    tz,            \* offset of the process's local time zone from UTC, in seconds
    call,          \* <<>>, or <<the argument object of the latest writeResult call>>
    nCalls,        \* number of writeResult calls so far
    outcome,       \* the message the latest writeResult call ended with
    js,            \* <<>>, or <<value returned by the latest embeddedMigrations(outFolder)>>
    folderName,    \* the calls of prepareSnapshotFolderName(): [at, name] of each
    cmd,           \* <<>>, or <<[dialect, config] of the prepareAndMigrate* call>>
    runpc,         \* its position: "none", "start", "diff", "done", "failed"
    completion,    \* how the promise it returned settled: "", "fulfilled", "rejected"
    todo,          \* categories the diff has still to resolve
    resolved,      \* what the resolvers returned to the diff so far
    callLog        \* the resolver calls of a caller: inputs, prompts, answers, output of each

resolverVars == <<fn, pc, newItems, missingItems, index, leftMissing, result,
                  promptData, rendered, answers>>

folderVars == <<units, manifest>>

writerVars == <<units, manifest, call, nCalls, outcome>>

clockVars == <<now, tz>>

runVars == <<cmd, runpc, completion, todo, resolved>>

vars == <<fn, pc, newItems, missingItems, index, leftMissing, result,
          promptData, rendered, answers, exitCode, units, manifest, now, tz,
          call, nCalls, outcome, js, folderName, cmd, runpc, completion, todo, resolved,
          callLog>>

(***************************************************************************)
(* Bounds of the model.                                                    *)
(***************************************************************************)
MaxLen == 2

MaxStmts == 2

MaxWrites == 2

MaxUnits == 3

(***************************************************************************)
(* Entities.                                                               *)
(***************************************************************************)
Names == {"a", "b"}

SchemaNames == {"", "public", "s1"}

\* export type Named = { name: string }
Named == [name : Names \cup {"c"}]

\* export type NamedWithSchema = { name: string; schema: string }
NamedWithSchema == [name : Names, schema : SchemaNames]

Range(s) == {s[i] : i \in DOMAIN s}

\* arrays of at most n pairwise distinct elements of S
DistinctSeqs(S, n) ==
    {s \in UNION {[1..k -> S] : k \in 0..n} :
        \A i, j \in DOMAIN s : i # j => s[i] # s[j]}

(***************************************************************************)
(* Array helpers, as the resolvers use them.                               *)
(***************************************************************************)
\* Array.prototype.indexOf: first position of x (1-based), 0 when absent
IndexOf(arr, x) ==
    IF \E i \in DOMAIN arr : arr[i] = x
    THEN CHOOSE i \in DOMAIN arr : arr[i] = x /\ \A j \in 1..(i - 1) : arr[j] # x
    ELSE 0

\* mutant: the chosen entity is never taken out of the pool
DeleteAndCompact_Kept(arr, x) == arr

\* delete arr[arr.indexOf(x)]; arr = arr.filter(Boolean)
DeleteAndCompact(arr, x) ==
    LET k == IndexOf(arr, x)
    IN  IF k = 0 THEN arr
        ELSE SubSeq(arr, 1, k - 1) \o SubSeq(arr, k + 1, Len(arr))

\* as if the rename options were offered in the reverse of the pool's order
Renames_Reversed(left, created) ==
    [i \in DOMAIN left |-> [from |-> left[Len(left) + 1 - i], to |-> created]]

\* leftMissing.map((it) => ({ from: it, to: created }))
Renames(left, created) == [i \in DOMAIN left |-> [from |-> left[i], to |-> created]]

\* [created, ...renames]
PromptDataOf(left, created) == <<created>> \o Renames(left, created)

\* isRenamePromptItem(data)
IsRenamePromptItem(data) == "from" \in DOMAIN data

\* `x || 'public'`
OrPublic(x) == IF x = "" THEN "public" ELSE x

(***************************************************************************)
(* render(): the resolver suspends with promptData offered to the oracle.  *)
(***************************************************************************)
Render(pd) ==
    /\ promptData' = pd
    /\ rendered' = Append(rendered, pd)
    /\ pc' = "render"

\* the resolver returns `res` without (further) suspending
Return(res) ==
    /\ result' = res
    /\ promptData' = <<>>
    /\ pc' = "returned"

\* if (status === 'aborted') { console.error('ERROR'); process.exit(1); }
\* as if the exit status were set and the function went on to return
ProcessExit_Returns(code) ==
    /\ exitCode' = <<code>>
    /\ pc' = "returned"

ProcessExit(code) ==
    /\ exitCode' = <<code>>
    /\ pc' = "exited"

Aborted ==
    /\ pc = "render"
    /\ ProcessExit(1)
    /\ UNCHANGED <<fn, newItems, missingItems, index, leftMissing, result,
                   promptData, rendered, answers>>

(***************************************************************************)
(* promptNamedWithSchemasConflict (tables, enums, sequences).  The         *)
(* `entity` argument only selects the wording of the messages.             *)
(***************************************************************************)
NamedFastPath(new, missing) == Len(missing) = 0 \/ Len(new) = 0

\* mutant: the two input arrays swapped in the fast-path result
NamedFastResult_Swapped(new, missing) ==
    [created |-> missing, renamed |-> <<>>, moved |-> <<>>, deleted |-> new]

NamedFastResult(new, missing) ==
    [created |-> new, renamed |-> <<>>, moved |-> <<>>, deleted |-> missing]

\* as if the result object were kept between calls instead of being created
\* by each call
NamedEmptyResult_Kept ==
    IF "moved" \in DOMAIN result
    THEN result
    ELSE [created |-> <<>>, renamed |-> <<>>, deleted |-> <<>>, moved |-> <<>>]

NamedEmptyResult ==
    [created |-> <<>>, renamed |-> <<>>, moved |-> <<>>, deleted |-> <<>>]

\* mutant: every match is pushed to renamed, as the flat resolvers do
NamedPushRenamed_Always(res, data) == [res EXCEPT !.renamed = Append(@, data)]

\* if (data.from.name !== data.to.name) result.renamed.push(data)
NamedPushRenamed(res, data) ==
    IF data.from.name # data.to.name
    THEN [res EXCEPT !.renamed = Append(@, data)]
    ELSE res

\* mutant: the moved entry carries the new name instead of the old one
NamedPushMoved_NewName(res, data) ==
    IF data.from.schema # data.to.schema
    THEN [res EXCEPT !.moved = Append(@,
             [name       |-> data.to.name,
              schemaFrom |-> OrPublic(data.from.schema),
              schemaTo   |-> OrPublic(data.to.schema)])]
    ELSE res

\* if (data.from.schema !== data.to.schema) result.moved.push({...})
NamedPushMoved(res, data) ==
    IF data.from.schema # data.to.schema
    THEN [res EXCEPT !.moved = Append(@,
             [name       |-> data.from.name,
              schemaFrom |-> OrPublic(data.from.schema),
              schemaTo   |-> OrPublic(data.to.schema)])]
    ELSE res

NamedCall(new, missing) ==
    /\ pc = "idle"
    /\ fn' = "promptNamedWithSchemasConflict"
    /\ newItems' = new
    /\ missingItems' = missing
    /\ index' = 0
    /\ UNCHANGED <<answers, exitCode>>
    /\ IF NamedFastPath(new, missing)
       THEN /\ Return(NamedFastResult(new, missing))
            /\ leftMissing' = <<>>
            /\ UNCHANGED rendered
       ELSE /\ result' = NamedEmptyResult
            /\ leftMissing' = missing
            /\ Render(PromptDataOf(missing, new[1]))

\* one pass of the do-while body after render() resolved with `data`
NamedAnswer(data) ==
    /\ pc = "render"
    /\ fn = "promptNamedWithSchemasConflict"
    /\ LET created == newItems[index + 1]
           res1 == IF IsRenamePromptItem(data)
                   THEN NamedPushMoved(NamedPushRenamed(result, data), data)
                   ELSE [result EXCEPT !.created = Append(@, created)]
           left1 == IF IsRenamePromptItem(data)
                    THEN DeleteAndCompact(leftMissing, data.from)
                    ELSE leftMissing
       IN  /\ answers' = Append(answers, data)
           /\ index' = index + 1
           /\ leftMissing' = left1
           /\ IF index + 1 < Len(newItems)
              THEN /\ result' = res1
                   /\ Render(PromptDataOf(left1, newItems[index + 2]))
              ELSE /\ Return([res1 EXCEPT !.deleted = @ \o left1])
                   /\ UNCHANGED rendered
    /\ UNCHANGED <<fn, newItems, missingItems, exitCode>>

(***************************************************************************)
(* promptColumnsConflicts.  The `tableName` argument only appears in the   *)
(* messages.                                                               *)
(***************************************************************************)
ColumnsFastPath(new, missing) == Len(new) = 0 \/ Len(missing) = 0

FlatFastResult(new, missing) ==
    [created |-> new, renamed |-> <<>>, deleted |-> missing]

FlatEmptyResult == [created |-> <<>>, renamed |-> <<>>, deleted |-> <<>>]

\* mutant: the chosen rename is not recorded
ColumnsPushRenamed_Dropped(res, data) == res

\* result.renamed.push(data)
ColumnsPushRenamed(res, data) == [res EXCEPT !.renamed = Append(@, data)]

ColumnsCall(new, missing) ==
    /\ pc = "idle"
    /\ fn' = "promptColumnsConflicts"
    /\ newItems' = new
    /\ missingItems' = missing
    /\ index' = 0
    /\ UNCHANGED <<answers, exitCode>>
    /\ IF ColumnsFastPath(new, missing)
       THEN /\ Return(FlatFastResult(new, missing))
            /\ leftMissing' = <<>>
            /\ UNCHANGED rendered
       ELSE /\ result' = FlatEmptyResult
            /\ leftMissing' = missing
            /\ Render(PromptDataOf(missing, new[1]))

\* as if the loop stopped prompting once the pool is empty and took the rest
\* of the candidates as created
ColumnsAnswer_StopsOnEmptyPool(data) ==
    /\ pc = "render"
    /\ fn = "promptColumnsConflicts"
    /\ LET created == newItems[index + 1]
           res1 == IF IsRenamePromptItem(data)
                   THEN ColumnsPushRenamed(result, data)
                   ELSE [result EXCEPT !.created = Append(@, created)]
           left1 == IF IsRenamePromptItem(data)
                    THEN DeleteAndCompact(leftMissing, data.from)
                    ELSE leftMissing
       IN  /\ answers' = Append(answers, data)
           /\ index' = index + 1
           /\ leftMissing' = left1
           /\ IF index + 1 < Len(newItems) /\ Len(left1) > 0
              THEN /\ result' = res1
                   /\ Render(PromptDataOf(left1, newItems[index + 2]))
              ELSE /\ Return([res1 EXCEPT
                                 !.created = @ \o SubSeq(newItems, index + 2, Len(newItems)),
                                 !.deleted = @ \o left1])
                   /\ UNCHANGED rendered
    /\ UNCHANGED <<fn, newItems, missingItems, exitCode>>

ColumnsAnswer(data) ==
    /\ pc = "render"
    /\ fn = "promptColumnsConflicts"
    /\ LET created == newItems[index + 1]
           res1 == IF IsRenamePromptItem(data)
                   THEN ColumnsPushRenamed(result, data)
                   ELSE [result EXCEPT !.created = Append(@, created)]
           left1 == IF IsRenamePromptItem(data)
                    THEN DeleteAndCompact(leftMissing, data.from)
                    ELSE leftMissing
       IN  /\ answers' = Append(answers, data)
           /\ index' = index + 1
           /\ leftMissing' = left1
           /\ IF index + 1 < Len(newItems)
              THEN /\ result' = res1
                   /\ Render(PromptDataOf(left1, newItems[index + 2]))
              ELSE /\ Return([res1 EXCEPT !.deleted = @ \o left1])
                   /\ UNCHANGED rendered
    /\ UNCHANGED <<fn, newItems, missingItems, exitCode>>

(***************************************************************************)
(* promptSchemasConflict.                                                  *)
(***************************************************************************)
SchemasFastPath(new, missing) == Len(missing) = 0 \/ Len(new) = 0

\* result.renamed.push(data)
SchemasPushRenamed(res, data) == [res EXCEPT !.renamed = Append(@, data)]

SchemasCall(new, missing) ==
    /\ pc = "idle"
    /\ fn' = "promptSchemasConflict"
    /\ newItems' = new
    /\ missingItems' = missing
    /\ index' = 0
    /\ UNCHANGED <<answers, exitCode>>
    /\ IF SchemasFastPath(new, missing)
       THEN /\ Return(FlatFastResult(new, missing))
            /\ leftMissing' = <<>>
            /\ UNCHANGED rendered
       ELSE /\ result' = FlatEmptyResult
            /\ leftMissing' = missing
            /\ Render(PromptDataOf(missing, new[1]))

SchemasAnswer(data) ==
    /\ pc = "render"
    /\ fn = "promptSchemasConflict"
    /\ LET created == newItems[index + 1]
           res1 == IF IsRenamePromptItem(data)
                   THEN SchemasPushRenamed(result, data)
                   ELSE [result EXCEPT !.created = Append(@, created)]
           left1 == IF IsRenamePromptItem(data)
                    THEN DeleteAndCompact(leftMissing, data.from)
                    ELSE leftMissing
       IN  /\ answers' = Append(answers, data)
           /\ index' = index + 1
           /\ leftMissing' = left1
           /\ IF index + 1 < Len(newItems)
              THEN /\ result' = res1
                   /\ Render(PromptDataOf(left1, newItems[index + 2]))
              ELSE /\ Return([res1 EXCEPT !.deleted = @ \o left1])
                   /\ UNCHANGED rendered
    /\ UNCHANGED <<fn, newItems, missingItems, exitCode>>

(***************************************************************************)
(* Strings are sequences of one-character strings.                         *)
(***************************************************************************)
DigitChars == <<"0", "1", "2", "3", "4", "5", "6", "7", "8", "9">>

IsDigit(c) == \E i \in 1..10 : DigitChars[i] = c

DigitVal(c) == (CHOOSE i \in 1..10 : DigitChars[i] = c) - 1

\* Number.prototype.toString() of a non-negative integer
RECURSIVE NumToString(_)
NumToString(n) ==
    IF n < 10 THEN <<DigitChars[n + 1]>>
    ELSE NumToString(n \div 10) \o <<DigitChars[(n % 10) + 1]>>

\* String.prototype.padStart(len, '0')
RECURSIVE PadStart(_, _)
PadStart(str, len) == IF Len(str) >= len THEN str ELSE PadStart(<<"0">> \o str, len)

\* String.prototype.slice(from, to) for 0 <= from <= to
Slice(str, from, to) ==
    LET e == IF to < Len(str) THEN to ELSE Len(str)
    IN  IF from >= e THEN <<>> ELSE SubSeq(str, from + 1, e)

\* value of a string of decimal digits
RECURSIVE ParseDigits(_)
ParseDigits(str) ==
    IF Len(str) = 0 THEN 0
    ELSE 10 * ParseDigits(SubSeq(str, 1, Len(str) - 1)) + DigitVal(str[Len(str)])

\* UTF-16 code unit of the characters that occur in directory names
CharCode(c) ==
    IF IsDigit(c) THEN 48 + DigitVal(c)
    ELSE CASE c = "." -> 46
           [] c = "_" -> 95
           [] c = "a" -> 97
           [] c = "d" -> 100
           [] c = "e" -> 101
           [] c = "i" -> 105
           [] c = "m" -> 109
           [] c = "n" -> 110
           [] c = "o" -> 111
           [] c = "t" -> 116
           [] c = "x" -> 120

\* a < b in the order of String comparison (by code units)
RECURSIVE StrLess(_, _)
StrLess(a, b) ==
    IF Len(b) = 0 THEN FALSE
    ELSE IF Len(a) = 0 THEN TRUE
    ELSE IF a[1] # b[1] THEN CharCode(a[1]) < CharCode(b[1])
    ELSE StrLess(Tail(a), Tail(b))

(***************************************************************************)
(* Date: the proleptic Gregorian calendar in UTC.                          *)
(***************************************************************************)
IsLeap(y) == (y % 4 = 0 /\ y % 100 # 0) \/ y % 400 = 0

DaysInMonth(y, m) ==
    IF m = 2 THEN (IF IsLeap(y) THEN 29 ELSE 28)
    ELSE IF m \in {4, 6, 9, 11} THEN 30 ELSE 31

\* days from 1970-01-01 to y-m-d
DaysFromCivil(y, m, d) ==
    LET yy  == IF m <= 2 THEN y - 1 ELSE y
        era == yy \div 400
        yoe == yy - era * 400
        mp  == IF m > 2 THEN m - 3 ELSE m + 9
        doy == (153 * mp + 2) \div 5 + d - 1
        doe == yoe * 365 + yoe \div 4 - yoe \div 100 + doy
    IN  era * 146097 + doe - 719468

\* [y, m, d] of the day `days` days after 1970-01-01
CivilFromDays(days) ==
    LET z   == days + 719468
        era == z \div 146097
        doe == z - era * 146097
        yoe == (doe - doe \div 1460 + doe \div 36524 - doe \div 146096) \div 365
        doy == doe - (365 * yoe + yoe \div 4 - yoe \div 100)
        mp  == (5 * doy + 2) \div 153
        d   == doy - (153 * mp + 2) \div 5 + 1
        m   == IF mp < 10 THEN mp + 3 ELSE mp - 9
        y   == yoe + era * 400 + (IF m <= 2 THEN 1 ELSE 0)
    IN  [y |-> y, m |-> m, d |-> d]

\* now.getFullYear(): the year in the local time zone
GetFullYear(t, offset) == CivilFromDays((t + offset) \div 86400).y

GetUTCMonth(t) == CivilFromDays(t \div 86400).m - 1

GetUTCDate(t) == CivilFromDays(t \div 86400).d

GetUTCHours(t) == (t % 86400) \div 3600

GetUTCMinutes(t) == (t % 3600) \div 60

GetUTCSeconds(t) == t % 60

\* const two = (input) => input.toString().padStart(2, '0')
two(input) == PadStart(NumToString(input), 2)

\* prepareSnapshotFolderName, at instant t of a process whose local time is
\* UTC + offset
prepareSnapshotFolderName(t, offset) ==
    NumToString(GetFullYear(t, offset)) \o two(GetUTCMonth(t) + 1) \o two(GetUTCDate(t))
        \o two(GetUTCHours(t)) \o two(GetUTCMinutes(t)) \o two(GetUTCSeconds(t))

\* +new Date(isoString) for `${year}-${month}-${day}T${hr}:${min}:${sec}.000Z`:
\* [s, ms] standing for s * 1000 + ms milliseconds, or NaN
NaN == [nan |-> TRUE]

IsNaN(x) == "nan" \in DOMAIN x

DateParse(year, month, day, hr, min, sec) ==
    IF /\ Len(year) = 4 /\ Len(month) = 2 /\ Len(day) = 2
       /\ Len(hr) = 2 /\ Len(min) = 2 /\ Len(sec) = 2
       /\ \A c \in Range(year \o month \o day \o hr \o min \o sec) : IsDigit(c)
       /\ ParseDigits(month) \in 1..12
       /\ ParseDigits(day) \in 1..DaysInMonth(ParseDigits(year), ParseDigits(month))
       /\ ParseDigits(hr) \in 0..23
       /\ ParseDigits(min) \in 0..59
       /\ ParseDigits(sec) \in 0..59
    THEN [s  |-> DaysFromCivil(ParseDigits(year), ParseDigits(month), ParseDigits(day)) * 86400
                    + ParseDigits(hr) * 3600 + ParseDigits(min) * 60 + ParseDigits(sec),
          ms |-> 0]
    ELSE NaN

timestampToMillis(timestamp) ==
    LET year  == Slice(timestamp, 0, 4)
        month == Slice(timestamp, 4, 6)
        day   == Slice(timestamp, 6, 8)
        hr    == Slice(timestamp, 8, 10)
        min   == Slice(timestamp, 10, 12)
        sec   == Slice(timestamp, 12, 14)
    IN  DateParse(year, month, day, hr, min, sec)

(***************************************************************************)
(* The output folder, and embeddedMigrations.                              *)
(***************************************************************************)
MigrationsJs == <<"m", "i", "g", "r", "a", "t", "i", "o", "n", "s", ".", "j", "s">>

\* injective sequences listing every element of S
RECURSIVE Orderings(_)
Orderings(S) ==
    IF S = {} THEN {<<>>}
    ELSE UNION {{<<x>> \o l : l \in Orderings(S \ {x})} : x \in S}

\* readdirSync(outFolder): the names of the folder, in an order the file
\* system chooses
ReadDirSync(dirs, mjs) ==
    Orderings(DOMAIN dirs \cup (IF mjs = <<>> THEN {} ELSE {MigrationsJs}))

\* `m${idx.toString().padStart(4, '0')}`
ImportName(idx) == <<"m">> \o PadStart(NumToString(idx), 4)

\* embeddedMigrations(outFolder) when readdirSync returns `listing`; the
\* generated text is kept as its parts: the import lines, journal.entries and
\* the migrations list
EmbeddedMigrationsOf(listing, dirs) ==
    LET IsDirectory(it) == it \in DOMAIN dirs
        migrationFolders == SelectSeq(listing, IsDirectory)
    IN  [imports    |-> [i \in DOMAIN migrationFolders |->
                            [importName |-> ImportName(i - 1),
                             entry      |-> migrationFolders[i]]],
         entries    |-> [i \in DOMAIN migrationFolders |->
                            [idx  |-> i - 1,
                             when |-> timestampToMillis(Slice(migrationFolders[i], 0, 14))]],
         migrations |-> [i \in DOMAIN migrationFolders |-> ImportName(i - 1)]]

(***************************************************************************)
(* writeResult.                                                            *)
(***************************************************************************)
BREAKPOINT == "--> statement-breakpoint\n"

IntrospectHeader ==
    "-- Current sql file was generated after introspecting the database\n-- If you want to run this migration please uncomment this code before executing migrations\n/*\n"

CustomSql == "-- Custom SQL migration file, put you code below! --"

\* default of the `_meta` parameter
DefaultMeta == [columns |-> {}, schemas |-> {}, tables |-> {}]

\* value of a destructured parameter with a default
Param(args, field, default) ==
    IF field \in DOMAIN args THEN args[field] ELSE default

\* Array.prototype.join(sep), as the sequence of the parts of the string
RECURSIVE Join(_, _)
Join(arr, sep) ==
    IF Len(arr) = 0 THEN <<>>
    ELSE IF Len(arr) = 1 THEN <<arr[1]>>
    ELSE <<arr[1], sep>> \o Join(Tail(arr), sep)

\* as if the custom placeholder were put in front of the statements
SqlText_CustomKeepsSql(type, sqlStatements, breakpoints) ==
    LET sqlDelimiter == IF breakpoints THEN BREAKPOINT ELSE "\n"
        sql == Join(sqlStatements, sqlDelimiter)
    IN  IF type = "custom" THEN <<CustomSql>> \o sql
        ELSE IF type = "introspect" THEN <<IntrospectHeader>> \o sql \o <<"\n*/">>
        ELSE sql

\* the text written to migration.sql
SqlText(type, sqlStatements, breakpoints) ==
    LET sqlDelimiter == IF breakpoints THEN BREAKPOINT ELSE "\n"
        sql == Join(sqlStatements, sqlDelimiter)
    IN  IF type = "custom" THEN <<CustomSql>>
        ELSE IF type = "introspect" THEN <<IntrospectHeader>> \o sql \o <<"\n*/">>
        ELSE sql

\* toSave = JSON.parse(JSON.stringify(cur)); toSave['_meta'] = _meta
ToSave(cur, meta) == [f \in DOMAIN cur \cup {"_meta"} |-> IF f = "_meta" THEN meta ELSE cur[f]]

\* mutant: the check for an empty statement list is missing
NothingToMigrate_Never(type, sqlStatements) == FALSE

\* as if an empty statement list ended every kind of call
NothingToMigrate_AnyType(type, sqlStatements) == Len(sqlStatements) = 0

\* type === 'none' && sqlStatements.length === 0: nothing to migrate
NothingToMigrate(type, sqlStatements) == type = "none" /\ Len(sqlStatements) = 0

\* prepareMigrationMetadata(name) of utils/words, called at instant t in a
\* process whose local time is UTC + offset: the timestamp prefix and the tag
\* `${prefix}_${suffix}`, the suffix being the name or two random words
prepareMigrationMetadata(name, words, t, offset) ==
    LET prefix == prepareSnapshotFolderName(t, offset)
        suffix == IF Len(name) > 0 THEN name ELSE words
    IN  [prefix |-> prefix, tag |-> prefix \o <<"_">> \o suffix]

\* mkdirSync(migrationFolder, {recursive: true}) and the two writeFileSync
WriteUnit(dirs, tag, snapshot, sql) ==
    [t \in DOMAIN dirs \cup {tag} |->
        IF t = tag
        THEN [f \in {"snapshot.json", "migration.sql"} |->
                 IF f = "snapshot.json" THEN snapshot ELSE sql]
        ELSE dirs[t]]

\* as if migrations.js were generated from the folder as it was before the
\* call
WriteBundle_Stale(bundle, dirs) ==
    IF bundle
    THEN \E listing \in ReadDirSync(units, manifest) :
             manifest' = <<EmbeddedMigrationsOf(listing, units)>>
    ELSE manifest' = manifest

\* writeFileSync(`${outFolder}/migrations.js`, embeddedMigrations(outFolder))
\* when bundle is set
WriteBundle(bundle, dirs) ==
    IF bundle
    THEN \E listing \in ReadDirSync(dirs, manifest) :
             manifest' = <<EmbeddedMigrationsOf(listing, dirs)>>
    ELSE manifest' = manifest

writeResult(args, words) ==
    LET type   == Param(args, "type", "none")
        bundle == Param(args, "bundle", FALSE)
        meta   == Param(args, "_meta", DefaultMeta)
        name   == Param(args, "name", <<>>)
        tag    == prepareMigrationMetadata(name, words, now, tz).tag
    IN  /\ call' = <<args>>
        /\ nCalls' = nCalls + 1
        /\ IF NothingToMigrate(type, args.sqlStatements)
           THEN /\ WriteBundle(bundle, units)
                /\ units' = units
                /\ outcome' = "No schema changes, nothing to migrate"
           ELSE /\ units' = WriteUnit(units, tag, ToSave(args.cur, meta),
                                      SqlText(type, args.sqlStatements, args.breakpoints))
                /\ WriteBundle(bundle, units')
                /\ outcome' = "Your SQL migration file"

(***************************************************************************)
(* The environment of writeResult: the clock, the arguments, and the       *)
(* folder that earlier runs of the command left.                           *)
(***************************************************************************)
\* 2024-01-01T12:00:00Z, 2024-01-01T12:05:00Z, 2024-12-31T23:59:59Z and
\* 2025-01-01T00:00:00Z
Instants == {1704110400, 1704110700, 1735689599, 1735689600}

\* the instants at which writeResult runs
WriteInstants == {1704110400, 1704110700}

\* local time zones: UTC-1, UTC, UTC+1
TzOffsets == {-3600, 0, 3600}

\* what the statement generator may return, cut to MaxStmts statements
Script == <<"CREATE TABLE users;", "ALTER TABLE users;", "DROP TABLE users;",
            "CREATE INDEX i;", "DROP INDEX i;">>

StmtLists ==
    {SubSeq(Script, 1, k) : k \in 0..(IF MaxStmts < Len(Script) THEN MaxStmts ELSE Len(Script))}

\* a statement whose text holds the two characters that end a block comment
CommentEndStatement == "CREATE TABLE notes (body text DEFAULT '*/');"

\* the parts of a statement file in which `*/` occurs
ContainsCommentEnd(part) == part \in {CommentEndStatement, "\n*/"}

\* the current schema snapshot, and the _meta of a diff that renamed a table
Cur == [dialect |-> "sqlite", tables |-> {"users"}, _meta |-> DefaultMeta]

RenameMeta == [columns |-> {}, schemas |-> {}, tables |-> {<<"people", "users">>}]

\* --name, and the suffixes prepareMigrationMetadata may draw
MigrationNames == {<<"i", "n", "i", "t">>}

RandomWords == {<<"o", "d", "d", "_", "o", "x">>}

\* an optional property of the argument object
Optional(field, values) == {<<>>} \cup {field :> v : v \in values}

WriteArgs ==
    {[cur |-> Cur, sqlStatements |-> st, breakpoints |-> bp] @@ m @@ n @@ b @@ t :
        st \in StmtLists \cup {<<CommentEndStatement>>}, bp \in BOOLEAN,
        m \in Optional("_meta", {RenameMeta}),
        n \in Optional("name", MigrationNames),
        b \in Optional("bundle", {TRUE}),
        t \in Optional("type", {"introspect", "custom"})}

\* the arguments of the runs that filled the folder before: a custom
\* migration named init, and a generated one of one statement
PastArgs ==
    {[cur |-> Cur, sqlStatements |-> <<>>, breakpoints |-> TRUE,
      name |-> <<"i", "n", "i", "t">>, type |-> "custom"],
     [cur |-> Cur, sqlStatements |-> SubSeq(Script, 1, 1), breakpoints |-> TRUE,
      _meta |-> DefaultMeta]}

\* the unit directory writeResult(args) creates at instant t
UnitWritten(args, words, t, offset) ==
    [tag   |-> prepareMigrationMetadata(Param(args, "name", <<>>), words, t, offset).tag,
     files |-> WriteUnit(<<>>, <<>>,
                         ToSave(args.cur, Param(args, "_meta", DefaultMeta)),
                         SqlText(Param(args, "type", "none"), args.sqlStatements,
                                 args.breakpoints))[<<>>]]

\* the folders that at most MaxUnits earlier runs, none later than t, left
PastFolders(t, offset) ==
    LET past == {UnitWritten(a, w, u, offset) :
                    a \in PastArgs, w \in RandomWords, u \in {v \in WriteInstants : v <= t}}
        sets == {S \in SUBSET past :
                    /\ Cardinality(S) <= MaxUnits
                    /\ \A x, y \in S : x.tag = y.tag => x = y}
    IN  {[tg \in {x.tag : x \in S} |-> (CHOOSE x \in S : x.tag = tg).files] : S \in sets}

\* the unit directories in the order of their names
SortedDirs(dirs) ==
    CHOOSE l \in Orderings(DOMAIN dirs) :
        \A i, j \in DOMAIN l : i < j => StrLess(l[i], l[j])

\* migrations.js in a folder: absent, or as a bundling run left it on a file
\* system that lists names in order
PastManifests(dirs) == {<<>>, <<EmbeddedMigrationsOf(SortedDirs(dirs), dirs)>>}

InitFolder ==
    /\ units = <<>>
    /\ manifest = <<>>

InitWriter ==
    /\ InitFolder
    /\ call = <<>>
    /\ nCalls = 0
    /\ outcome = ""

InitClock ==
    /\ now = 1704110400
    /\ tz = 0

(***************************************************************************)
(* Specification of one resolver call: any of the three resolvers, on any  *)
(* pair of arrays of distinct entities, with any oracle.                   *)
(***************************************************************************)
\* no prepareAndMigrate* call is under way
InitNoRun ==
    /\ cmd = <<>>
    /\ runpc = "none"
    /\ completion = ""
    /\ todo = <<>>
    /\ resolved = <<>>
    /\ callLog = <<>>

InitResolver ==
    /\ fn = "none"
    /\ pc = "idle"
    /\ newItems = <<>>
    /\ missingItems = <<>>
    /\ index = 0
    /\ leftMissing = <<>>
    /\ result = FlatEmptyResult
    /\ promptData = <<>>
    /\ rendered = <<>>
    /\ answers = <<>>

InitResolve ==
    /\ InitResolver
    /\ exitCode = <<>>
    /\ InitWriter
    /\ InitClock
    /\ js = <<>>
    /\ folderName = <<>>
    /\ InitNoRun

CallNamed ==
    /\ pc = "idle"
    /\ \E new \in DistinctSeqs(NamedWithSchema, MaxLen) :
           \E missing \in DistinctSeqs(NamedWithSchema, MaxLen) :
               NamedCall(new, missing)

CallColumns ==
    /\ pc = "idle"
    /\ \E new \in DistinctSeqs(Named, MaxLen) :
           \E missing \in DistinctSeqs(Named, MaxLen) :
               ColumnsCall(new, missing)

CallSchemas ==
    /\ pc = "idle"
    /\ \E new \in DistinctSeqs(Named, MaxLen) :
           \E missing \in DistinctSeqs(Named, MaxLen) :
               SchemasCall(new, missing)

\* the oracle resolves the pending render() with one of the offered options
AnswerNamed ==
    /\ pc = "render"
    /\ \E k \in DOMAIN promptData : NamedAnswer(promptData[k])

AnswerColumns ==
    /\ pc = "render"
    /\ \E k \in DOMAIN promptData : ColumnsAnswer(promptData[k])

AnswerSchemas ==
    /\ pc = "render"
    /\ \E k \in DOMAIN promptData : SchemasAnswer(promptData[k])

NextResolve ==
    /\ \/ CallNamed
       \/ CallColumns
       \/ CallSchemas
       \/ AnswerNamed
       \/ AnswerColumns
       \/ AnswerSchemas
       \/ Aborted
    /\ UNCHANGED <<writerVars, clockVars, js, folderName, runVars, callLog>>

SpecResolve == InitResolve /\ [][NextResolve]_vars

(***************************************************************************)
(* Properties of the resolvers, checked under SpecResolve.                 *)
(***************************************************************************)
NamedFn == "promptNamedWithSchemasConflict"

FlatFns == {"promptSchemasConflict", "promptColumnsConflicts"}

\* number of positions of seq whose element satisfies P
Count(seq, P(_)) == Cardinality({i \in DOMAIN seq : P(seq[i])})

\* positions of the oracle answers that chose a rename option
RenameAnswers == {i \in DOMAIN answers : IsRenamePromptItem(answers[i])}

\* C1: in each of the three resolvers, whenever newSet or missingSet is
\* empty the call returns at once with created = newSet, deleted =
\* missingSet, renamed = [] (and moved = [] for the namespaced resolver), and
\* render was never called.
C1_FastPath ==
    (fn # "none" /\ (Len(newItems) = 0 \/ Len(missingItems) = 0)) =>
        /\ pc = "returned"
        /\ result.created = newItems
        /\ result.deleted = missingItems
        /\ result.renamed = <<>>
        /\ (fn = NamedFn => result.moved = <<>>)
        /\ (fn \in FlatFns => DOMAIN result = {"created", "renamed", "deleted"})
        /\ rendered = <<>>
        /\ answers = <<>>

C1_Witness ==
    /\ fn = NamedFn
    /\ pc = "returned"
    /\ Len(newItems) = 0
    /\ Len(missingItems) = 2
    /\ result.deleted = missingItems

\* C2: for the flat resolvers, on distinct inputs and any non-abort answers
\* taken from the offered options, every element of newSet is in exactly one
\* of created / the `to` of exactly one renamed entry, every element of
\* missingSet is in exactly one of deleted / the `from` of exactly one
\* renamed entry, and nothing else is in the result.
C2_FlatPartition ==
    (fn \in FlatFns /\ pc = "returned") =>
        /\ \A e \in Range(newItems) :
              LET IsE(x) == x = e
                  ToE(r) == r.to = e
              IN  Count(result.created, IsE) + Count(result.renamed, ToE) = 1
        /\ \A e \in Range(missingItems) :
              LET IsE(x) == x = e
                  FromE(r) == r.from = e
              IN  Count(result.deleted, IsE) + Count(result.renamed, FromE) = 1
        /\ Range(result.created) \subseteq Range(newItems)
        /\ Range(result.deleted) \subseteq Range(missingItems)
        /\ \A i \in DOMAIN result.renamed :
              /\ result.renamed[i].to \in Range(newItems)
              /\ result.renamed[i].from \in Range(missingItems)

C2_Witness ==
    /\ fn = "promptColumnsConflicts"
    /\ pc = "returned"
    /\ Len(result.created) = 1
    /\ Len(result.renamed) = 1
    /\ Len(result.deleted) = 1

\* C3 as stated: the namespaced resolver returns a delta with
\* |created| + |renamed| = |newSet| and |deleted| + |renamed| = |missingSet|.
C3_CountsAsStated ==
    (fn = NamedFn /\ pc = "returned") =>
        /\ Len(result.created) + Len(result.renamed) = Len(newItems)
        /\ Len(result.deleted) + Len(result.renamed) = Len(missingItems)

\* C3 amended: with m the number of "rename from" answers of the call,
\* |created| + m = |newSet| and |deleted| + m = |missingSet|; renamed holds
\* one entry for each of those answers whose two names differ (a match that
\* keeps its name adds nothing to renamed), so that |created| + |renamed| <=
\* |newSet| and |deleted| + |renamed| <= |missingSet|.
C3_Counts ==
    (fn = NamedFn /\ pc = "returned") =>
        LET m == Cardinality(RenameAnswers)
            differ == {i \in RenameAnswers : answers[i].from.name # answers[i].to.name}
        IN  /\ Len(result.created) + m = Len(newItems)
            /\ Len(result.deleted) + m = Len(missingItems)
            /\ Len(result.renamed) = Cardinality(differ)
            /\ Len(result.created) + Len(result.renamed) <= Len(newItems)
            /\ Len(result.deleted) + Len(result.renamed) <= Len(missingItems)

C3_Witness ==
    /\ fn = NamedFn
    /\ pc = "returned"
    /\ Len(newItems) = 2
    /\ Len(missingItems) = 2
    /\ Cardinality(RenameAnswers) = 2
    /\ Len(result.renamed) = 1
    /\ Len(result.moved) = 1

\* C4: in every resolver, an entity chosen as "rename from" leaves the
\* unconsumed pool for good: it is in no option list offered afterwards, it is
\* the `from` of no later answer, and it is not in deleted.
C4_ConsumedOnce ==
    \A i \in RenameAnswers :
        LET X == answers[i].from
        IN  /\ \A j \in DOMAIN rendered :
                  j > i => \A k \in DOMAIN rendered[j] :
                              IsRenamePromptItem(rendered[j][k])
                                  => rendered[j][k].from # X
            /\ \A j \in RenameAnswers : j # i => answers[j].from # X
            /\ \A k \in DOMAIN leftMissing : leftMissing[k] # X
            /\ pc = "returned" => \A k \in DOMAIN result.deleted : result.deleted[k] # X

C4_Witness ==
    /\ pc = "returned"
    /\ Len(answers) = 2
    /\ 1 \in RenameAnswers
    /\ Len(rendered[2]) = 2
    /\ Len(result.deleted) = 1

\* C5: in promptNamedWithSchemasConflict each "rename from X" answer for
\* candidate C appends: one moved entry {name: X.name, schemaFrom, schemaTo}
\* and no renamed entry when the names are equal and the schemas differ; one
\* renamed entry {from: X, to: C} and no moved entry when the names differ
\* and the schemas are equal; one of each when both differ, the moved entry
\* carrying the old name X.name.
C5_MovedRenamedPerAnswer ==
    [][(/\ fn = NamedFn
        /\ pc = "render"
        /\ Len(answers') = Len(answers) + 1
        /\ IsRenamePromptItem(answers'[Len(answers')]))
       => LET X == answers'[Len(answers')].from
              C == answers'[Len(answers')].to
              oneMoved ==
                  /\ Len(result'.moved) = Len(result.moved) + 1
                  /\ SubSeq(result'.moved, 1, Len(result.moved)) = result.moved
                  /\ result'.moved[Len(result'.moved)].name = X.name
              oneRenamed ==
                  result'.renamed = Append(result.renamed, [from |-> X, to |-> C])
          IN  /\ C = newItems[index + 1]
              /\ (X.name = C.name /\ X.schema # C.schema)
                    => oneMoved /\ result'.renamed = result.renamed
              /\ (X.name # C.name /\ X.schema = C.schema)
                    => oneRenamed /\ result'.moved = result.moved
              /\ (X.name # C.name /\ X.schema # C.schema)
                    => oneMoved /\ oneRenamed]_vars

C5_Witness ==
    /\ fn = NamedFn
    /\ Len(answers) = 1
    /\ 1 \in RenameAnswers
    /\ answers[1].from.name # answers[1].to.name
    /\ answers[1].from.schema # answers[1].to.schema
    /\ Len(result.moved) = 1
    /\ Len(result.renamed) = 1

\* C6: a moved entry is emitted only when the two schemas differ after an
\* absent or empty schema is read as 'public', so that every moved entry of
\* every returned delta has schemaFrom different from schemaTo.
C6_MovedOnlyAcrossSchemas ==
    (fn = NamedFn /\ pc = "returned") =>
        \A i \in DOMAIN result.moved :
            result.moved[i].schemaFrom # result.moved[i].schemaTo

(***************************************************************************)
(* Specification of one run of writeResult: in a folder that earlier runs  *)
(* left, at any instant, with any arguments.                               *)
(***************************************************************************)
InitWrite ==
    /\ InitResolver
    /\ exitCode = <<>>
    /\ now \in WriteInstants
    /\ tz = 0
    /\ units \in PastFolders(now, tz)
    /\ manifest \in PastManifests(units)
    /\ call = <<>>
    /\ nCalls = 0
    /\ outcome = ""
    /\ js = <<>>
    /\ folderName = <<>>
    /\ InitNoRun

WriteResultCall ==
    /\ nCalls = 0
    /\ \E args \in WriteArgs : \E words \in RandomWords : writeResult(args, words)
    /\ UNCHANGED <<resolverVars, exitCode, clockVars, js, folderName, runVars, callLog>>

NextWrite == WriteResultCall

SpecWrite == InitWrite /\ [][NextWrite]_vars

(***************************************************************************)
(* Specification of the folder over successive runs of the command, from   *)
(* an empty folder, while the clock advances.                              *)
(***************************************************************************)
InitRuns ==
    /\ InitResolver
    /\ exitCode = <<>>
    /\ InitWriter
    /\ InitClock
    /\ js = <<>>
    /\ folderName = <<>>
    /\ InitNoRun

NextRunOfWriteResult ==
    /\ nCalls < MaxWrites
    /\ \E args \in WriteArgs : \E words \in RandomWords : writeResult(args, words)
    /\ UNCHANGED <<resolverVars, exitCode, clockVars, js, folderName, runVars, callLog>>

Tick ==
    /\ nCalls < MaxWrites
    /\ \E t \in WriteInstants : t > now /\ now' = t
    /\ UNCHANGED <<resolverVars, exitCode, writerVars, tz, js, folderName, runVars, callLog>>

NextRuns ==
    \/ NextRunOfWriteResult
    \/ Tick

SpecRuns == InitRuns /\ [][NextRuns]_vars

(***************************************************************************)
(* Specification of one call of embeddedMigrations(outFolder), on a folder *)
(* of units written at any of the instants, in any time zone.              *)
(***************************************************************************)
\* the tags prepareMigrationMetadata produces
Tags ==
    {prepareMigrationMetadata(n, w, t, o).tag :
        n \in {<<>>} \cup MigrationNames, w \in RandomWords, t \in Instants, o \in TzOffsets}

\* the files of a unit directory
SomeUnitFiles == (CHOOSE u \in {UnitWritten(a, <<"o", "x">>, 0, 0) : a \in PastArgs} : TRUE).files

\* directories of the folder that no run of writeResult made
MalformedDirs == {<<"m", "e", "t", "a">>, <<"2", "0", "2", "4", "_", "i", "n", "i", "t">>}

InitJournal ==
    /\ InitResolver
    /\ exitCode = <<>>
    /\ InitClock
    /\ \E S \in SUBSET Tags : \E M \in SUBSET MalformedDirs :
          /\ Cardinality(S) <= MaxUnits
          /\ Cardinality(M) <= 1
          /\ units = [t \in S \cup M |-> SomeUnitFiles]
    /\ manifest \in {<<>>, <<EmbeddedMigrationsOf(<<>>, <<>>)>>}
    /\ call = <<>>
    /\ nCalls = 0
    /\ outcome = ""
    /\ js = <<>>
    /\ folderName = <<>>
    /\ InitNoRun

EmbeddedMigrationsCall ==
    /\ js = <<>>
    /\ \E listing \in ReadDirSync(units, manifest) :
          js' = <<EmbeddedMigrationsOf(listing, units)>>
    /\ UNCHANGED <<resolverVars, exitCode, writerVars, clockVars, folderName, runVars, callLog>>

NextJournal == EmbeddedMigrationsCall

SpecJournal == InitJournal /\ [][NextJournal]_vars

(***************************************************************************)
(* Specification of one migration-generation run: prepareAndMigratePg,     *)
(* prepareAndMigrateMysql or prepareAndMigrateSqlite, the diff calling the *)
(* category resolvers it was handed and the oracle answering or aborting.  *)
(***************************************************************************)
Dialects == {"postgresql", "mysql", "sqlite"}

\* GenerateConfig: breakpoints, custom, and the optional name and bundle
RunConfigs ==
    {[breakpoints |-> bp, custom |-> c] @@ n @@ b :
        bp \in BOOLEAN, c \in BOOLEAN,
        n \in Optional("name", MigrationNames),
        b \in Optional("bundle", {TRUE})}

\* the resolvers apply*SnapshotsDiff receives, in the order of its parameters
Categories(dialect) ==
    IF dialect = "postgresql"
    THEN <<"schema", "enum", "sequence", "table", "column">>
    ELSE <<"table", "column">>

\* the function a category's resolver awaits
ResolverFn(category) ==
    CASE category = "schema" -> "promptSchemasConflict"
      [] category = "column" -> "promptColumnsConflicts"
      [] OTHER               -> "promptNamedWithSchemasConflict"

\* ResolverInput of a category: nothing created or deleted, or one entity
\* created and another deleted
ResolverInputs(category) ==
    IF ResolverFn(category) = "promptNamedWithSchemasConflict"
    THEN {[created |-> <<>>, deleted |-> <<>>],
          [created |-> <<[name |-> "a", schema |-> "public"]>>,
           deleted |-> <<[name |-> "b", schema |-> "s1"]>>]}
    ELSE {[created |-> <<>>, deleted |-> <<>>],
          [created |-> <<[name |-> "a"]>>, deleted |-> <<[name |-> "b"]>>]}

\* _meta of the diff: what the resolvers reported as renamed or moved
DiffMeta(res) ==
    LET of(c) == UNION {{<<res[i].output.renamed[j].from.name,
                           res[i].output.renamed[j].to.name>> :
                            j \in DOMAIN res[i].output.renamed} :
                        i \in {k \in DOMAIN res : res[k].category = c}}
    IN  [columns |-> of("column"), schemas |-> of("schema"), tables |-> of("table")]

\* name: config.name and, for SQLite, bundle: config.bundle
ConfigOptions(dialect, config) ==
    (IF "name" \in DOMAIN config THEN "name" :> config.name ELSE <<>>)
    @@ (IF dialect = "sqlite" /\ "bundle" \in DOMAIN config
        THEN "bundle" :> config.bundle ELSE <<>>)

\* writeResult({ cur: custom, sqlStatements: [], ..., type: 'custom' })
CustomArgs(dialect, config) ==
    [cur |-> Cur, sqlStatements |-> <<>>, breakpoints |-> config.breakpoints,
     type |-> "custom"] @@ ConfigOptions(dialect, config)

\* writeResult({ cur, sqlStatements, _meta, ... }); the PostgreSQL command
\* leaves _meta out
DiffArgs(dialect, config, sqlStatements, meta) ==
    [cur |-> Cur, sqlStatements |-> sqlStatements, breakpoints |-> config.breakpoints]
    @@ (IF dialect = "postgresql" THEN <<>> ELSE "_meta" :> meta)
    @@ ConfigOptions(dialect, config)

InitRun ==
    /\ InitResolver
    /\ exitCode = <<>>
    /\ InitWriter
    /\ InitClock
    /\ js = <<>>
    /\ folderName = <<>>
    /\ \E d \in Dialects : \E c \in RunConfigs : cmd = <<[dialect |-> d, config |-> c]>>
    /\ runpc = "start"
    /\ completion = ""
    /\ todo = <<>>
    /\ resolved = <<>>
    /\ callLog = <<>>

\* catch (e) { console.error(e); }: the exception is logged and the async
\* function returns, so its promise is fulfilled
Caught == "fulfilled"

\* the command up to the diff: a snapshot that fails validation throws into
\* the catch block; config.custom writes the custom unit and returns
PrepareAndMigrate ==
    /\ runpc = "start"
    /\ LET d == cmd[1].dialect
           c == cmd[1].config
       IN  \E valid \in BOOLEAN :
               IF ~valid
               THEN /\ runpc' = "failed"
                    /\ completion' = Caught
                    /\ UNCHANGED <<writerVars, todo>>
               ELSE IF c.custom
               THEN /\ \E words \in RandomWords : writeResult(CustomArgs(d, c), words)
                    /\ runpc' = "done"
                    /\ completion' = "fulfilled"
                    /\ UNCHANGED todo
               ELSE /\ runpc' = "diff"
                    /\ todo' = Categories(d)
                    /\ UNCHANGED <<writerVars, completion>>
    /\ UNCHANGED <<resolverVars, exitCode, clockVars, js, folderName, cmd, resolved, callLog>>

\* the diff awaits the resolver of the next category
DiffCallsResolver ==
    /\ runpc = "diff"
    /\ pc = "idle"
    /\ todo # <<>>
    /\ \E input \in ResolverInputs(Head(todo)) :
           CASE ResolverFn(Head(todo)) = "promptSchemasConflict" ->
                    SchemasCall(input.created, input.deleted)
             [] ResolverFn(Head(todo)) = "promptColumnsConflicts" ->
                    ColumnsCall(input.created, input.deleted)
             [] OTHER ->
                    NamedCall(input.created, input.deleted)
    /\ UNCHANGED <<writerVars, clockVars, js, folderName, runVars, callLog>>

\* the resolver hands what the prompt function returned back to the diff
ResolverReturns ==
    /\ runpc = "diff"
    /\ pc = "returned"
    /\ resolved' = Append(resolved,
           [category |-> Head(todo),
            output   |-> IF Head(todo) = "column"
                         THEN [tableName |-> "users", schema |-> ""] @@ result
                         ELSE result])
    /\ todo' = Tail(todo)
    /\ pc' = "idle"
    /\ UNCHANGED <<fn, newItems, missingItems, index, leftMissing, result,
                   promptData, rendered, answers, exitCode>>
    /\ UNCHANGED <<writerVars, clockVars, js, folderName, cmd, runpc, completion, callLog>>

\* the diff resolves with { sqlStatements, _meta } and the command calls
\* writeResult
DiffReturns ==
    /\ runpc = "diff"
    /\ pc = "idle"
    /\ todo = <<>>
    /\ \E sqlStatements \in StmtLists : \E words \in RandomWords :
           writeResult(DiffArgs(cmd[1].dialect, cmd[1].config, sqlStatements,
                                DiffMeta(resolved)), words)
    /\ runpc' = "done"
    /\ completion' = "fulfilled"
    /\ UNCHANGED <<resolverVars, exitCode, clockVars, js, folderName, cmd, todo, resolved, callLog>>

OracleStep ==
    /\ \/ AnswerNamed
       \/ AnswerColumns
       \/ AnswerSchemas
       \/ Aborted
    /\ UNCHANGED <<writerVars, clockVars, js, folderName, runVars, callLog>>

NextRun ==
    \/ PrepareAndMigrate
    \/ DiffCallsResolver
    \/ ResolverReturns
    \/ DiffReturns
    \/ OracleStep

SpecRun == InitRun /\ [][NextRun]_vars

(***************************************************************************)
(* Properties of a migration-generation run, checked under SpecRun.        *)
(***************************************************************************)
\* render() resolved without a chosen option: the oracle signalled abort
AbortSignalled == pc = "render" /\ pc' # "render" /\ answers' = answers

\* C7: if the oracle signals abort at any prompt of any category resolver
\* during a run of prepareAndMigratePg / Mysql / Sqlite, the process exits
\* with status 1; from then on nothing changes: no later prompt is issued,
\* the partial resolutions are not returned to the diff, and writeResult is
\* never called, so no unit directory, snapshot, statement file or manifest
\* is written.
C7_AbortTerminatesRun ==
    /\ [][AbortSignalled => exitCode' = <<1>>]_vars
    /\ [][exitCode # <<>> => UNCHANGED vars]_vars
    /\ [](exitCode # <<>> =>
            /\ exitCode = <<1>>
            /\ pc = "exited"
            /\ runpc = "diff"
            /\ nCalls = 0
            /\ call = <<>>
            /\ units = <<>>
            /\ manifest = <<>>)

\* the oracle aborted a prompt after an earlier category was resolved with a
\* rename
C7_Witness ==
    /\ exitCode = <<1>>
    /\ \E i \in DOMAIN resolved : Len(resolved[i].output.renamed) > 0

(***************************************************************************)
(* Properties of writeResult and embeddedMigrations.                       *)
(***************************************************************************)
\* a step that is a call of writeResult with an empty statement list and
\* type 'none' (the default)
CalledWithNothingToMigrate ==
    /\ nCalls' = nCalls + 1
    /\ Param(call'[1], "type", "none") = "none"
    /\ call'[1].sqlStatements = <<>>

\* C8 as stated: called with an empty statement list and kind normal,
\* whatever name, breakpoints and bundle are, writeResult creates no unit
\* directory, writes no snapshot or statement file, performs no other write
\* under the output folder, and reports the no-op outcome.
C8_NoWriteAsStated ==
    [][CalledWithNothingToMigrate
       => /\ units' = units
          /\ manifest' = manifest
          /\ outcome' = "No schema changes, nothing to migrate"]_vars

\* C8 amended: called with an empty statement list and kind normal,
\* writeResult creates no unit directory, writes no snapshot or statement
\* file and reports the no-op outcome; when bundle is set it first rewrites
\* migrations.js from the unit directories that exist, which is its only
\* write, and without bundle it writes nothing.
C8_NoUnitWritten ==
    [][CalledWithNothingToMigrate
       => /\ units' = units
          /\ outcome' = "No schema changes, nothing to migrate"
          /\ IF Param(call'[1], "bundle", FALSE)
             THEN \E l \in ReadDirSync(units, manifest) :
                      manifest' = <<EmbeddedMigrationsOf(l, units)>>
             ELSE manifest' = manifest]_vars

C8_Witness ==
    /\ nCalls = 1
    /\ Param(call[1], "type", "none") = "none"
    /\ call[1].sqlStatements = <<>>
    /\ Param(call[1], "bundle", FALSE)
    /\ "name" \in DOMAIN call[1]
    /\ Cardinality(DOMAIN units) = 2
    /\ manifest # <<>>
    /\ outcome = "No schema changes, nothing to migrate"

\* C9: writing a unit never overwrites an existing unit: over any sequence
\* of writeResult calls, every unit directory that exists stays in the folder
\* with its snapshot and its statement file unchanged (a call whose tag
\* exists already is rejected or gets another tag).
C9_UnitsNeverOverwritten ==
    [][\A t \in DOMAIN units : t \in DOMAIN units' /\ units'[t] = units[t]]_vars

\* the name begins with a 14-digit timestamp that parses
HasValidTag(d) == ~IsNaN(timestampToMillis(Slice(d, 0, 14)))

\* a <= b for two results of timestampToMillis
MillisLeq(a, b) == a.s < b.s \/ (a.s = b.s /\ a.ms <= b.ms)

\* C10: the journal embeddedMigrations produces follows the lexical order of
\* the unit directories: entry i has idx = i, belongs to the i-th directory
\* in sort order and has the `when` parsed from that directory's 14-digit
\* prefix, so `when` never decreases along idx, whatever order readdirSync
\* lists the names in.
C10_JournalInTagOrder ==
    (js # <<>> /\ \A d \in DOMAIN units : HasValidTag(d)) =>
        LET m == js[1]
            sorted == SortedDirs(units)
        IN  /\ Len(m.entries) = Len(sorted)
            /\ \A i \in DOMAIN m.entries :
                  /\ m.entries[i].idx = i - 1
                  /\ m.imports[i].entry = sorted[i]
                  /\ m.entries[i].when = timestampToMillis(Slice(sorted[i], 0, 14))
            /\ \A i, j \in DOMAIN m.entries :
                  i < j => MillisLeq(m.entries[i].when, m.entries[j].when)

\* C11: embeddedMigrations fails whenever the folder holds a directory whose
\* name does not begin with a valid 14-digit timestamp: it never returns a
\* manifest for such a folder (files that are not directories do not count).
C11_MalformedTagRejected ==
    js # <<>> => \A d \in DOMAIN units : HasValidTag(d)

(***************************************************************************)
(* Specification of the calls of prepareSnapshotFolderName() by a process  *)
(* in any time zone, at instants that advance.                             *)
(***************************************************************************)
MaxNames == 3

InitNames ==
    /\ InitResolver
    /\ exitCode = <<>>
    /\ InitWriter
    /\ now \in Instants
    /\ tz \in TzOffsets
    /\ js = <<>>
    /\ folderName = <<>>
    /\ InitNoRun

PrepareSnapshotFolderNameCall ==
    /\ Len(folderName) < MaxNames
    /\ folderName' = Append(folderName,
           [at |-> now, name |-> prepareSnapshotFolderName(now, tz)])
    /\ UNCHANGED <<resolverVars, exitCode, writerVars, clockVars, js, runVars, callLog>>

TickNames ==
    /\ Len(folderName) < MaxNames
    /\ \E t \in Instants : t > now /\ now' = t
    /\ UNCHANGED <<resolverVars, exitCode, writerVars, tz, js, folderName, runVars, callLog>>

NextNames ==
    \/ PrepareSnapshotFolderNameCall
    \/ TickNames

SpecNames == InitNames /\ [][NextNames]_vars

\* YYYYMMDDHHMMSS of instant t in UTC
UTCTimestamp(t) ==
    LET date == CivilFromDays(t \div 86400)
    IN  PadStart(NumToString(date.y), 4) \o two(date.m) \o two(date.d)
            \o two((t % 86400) \div 3600) \o two((t % 3600) \div 60) \o two(t % 60)

\* C12: prepareSnapshotFolderName returns the 14-digit UTC timestamp of the
\* current instant, in every time zone of the process; so of two names
\* generated at least one second apart, the earlier is lexically smaller.
C12_UTCPrefixInOrder ==
    /\ \A i \in DOMAIN folderName : folderName[i].name = UTCTimestamp(folderName[i].at)
    /\ \A i, j \in DOMAIN folderName :
          folderName[i].at < folderName[j].at
              => StrLess(folderName[i].name, folderName[j].name)

(***************************************************************************)
(* Specification of a run of writeResult that the process does not         *)
(* survive, stopped between its two writeFileSync of the unit, followed by *)
(* a run that completes.                                                   *)
(***************************************************************************)
\* mkdirSync(migrationFolder, {recursive: true}) and the first writeFileSync
WriteSnapshotOnly(dirs, tag, snapshot) ==
    [t \in DOMAIN dirs \cup {tag} |->
        IF t = tag
        THEN IF t \in DOMAIN dirs
             THEN [f \in DOMAIN dirs[t] \cup {"snapshot.json"} |->
                      IF f = "snapshot.json" THEN snapshot ELSE dirs[t][f]]
             ELSE [f \in {"snapshot.json"} |-> snapshot]
        ELSE dirs[t]]

\* a unit directory that lacks one of its two files
Incomplete(files) == DOMAIN files # {"snapshot.json", "migration.sql"}

InitCrash ==
    /\ InitResolver
    /\ exitCode = <<>>
    /\ InitWriter
    /\ now \in WriteInstants
    /\ tz = 0
    /\ js = <<>>
    /\ folderName = <<>>
    /\ InitNoRun

\* writeResult(args) up to line 766, where the process dies
WriteResultInterrupted ==
    /\ nCalls = 0
    /\ units = <<>>
    /\ \E args \in WriteArgs : \E words \in RandomWords :
          /\ ~NothingToMigrate(Param(args, "type", "none"), args.sqlStatements)
          /\ units' = WriteSnapshotOnly(units,
                 prepareMigrationMetadata(Param(args, "name", <<>>), words, now, tz).tag,
                 ToSave(args.cur, Param(args, "_meta", DefaultMeta)))
    /\ UNCHANGED <<resolverVars, exitCode, manifest, call, nCalls, outcome,
                   clockVars, js, folderName, runVars, callLog>>

\* the next run of the command, which completes
WriteResultAfterCrash ==
    /\ nCalls = 0
    /\ units # <<>>
    /\ \E args \in WriteArgs : \E words \in RandomWords : writeResult(args, words)
    /\ UNCHANGED <<resolverVars, exitCode, clockVars, js, folderName, runVars, callLog>>

NextCrash ==
    \/ WriteResultInterrupted
    \/ WriteResultAfterCrash

SpecCrash == InitCrash /\ [][NextCrash]_vars

\* what the writer reports when it finds an incomplete unit
IntegrityWarnings == {"PartialWriteInconsistency"}

\* C13: a run of writeResult on a folder where an interrupted run left a unit
\* directory with only one of its two files reports a data-integrity
\* warning; it does not complete as if the folder were sound, leave the unit
\* out of account in the manifest it writes, or overwrite or delete it
\* silently.
C13_PartialUnitDetected ==
    [][(nCalls' = nCalls + 1 /\ \E d \in DOMAIN units : Incomplete(units[d]))
          => outcome' \in IntegrityWarnings]_vars

\* the single call of SpecWrite wrote a unit with the bundle option set
WroteUnitWithBundle ==
    /\ nCalls = 1
    /\ Param(call[1], "bundle", FALSE)
    /\ outcome = "Your SQL migration file"

\* C14: when writeResult writes a unit with the bundle option set, the
\* migrations.js it leaves was generated after the unit's two files were
\* written: it has one import and one journal entry for every unit directory
\* of the folder, the directory just written included.
C14_ManifestCoversNewUnit ==
    WroteUnitWithBundle =>
        /\ manifest # <<>>
        /\ LET m == manifest[1]
           IN  /\ Len(m.imports) = Cardinality(DOMAIN units)
               /\ Len(m.entries) = Len(m.imports)
               /\ Len(m.migrations) = Len(m.imports)
               /\ {m.imports[i].entry : i \in DOMAIN m.imports} = DOMAIN units
               /\ \E words \in RandomWords :
                     LET tag == prepareMigrationMetadata(Param(call[1], "name", <<>>),
                                                         words, now, tz).tag
                     IN  /\ tag \in DOMAIN units
                         /\ DOMAIN units[tag] = {"snapshot.json", "migration.sql"}
                         /\ \E i \in DOMAIN m.imports : m.imports[i].entry = tag

\* a unit was written with bundle into a folder that held another unit
C14_Witness ==
    /\ WroteUnitWithBundle
    /\ Cardinality(DOMAIN units) >= 2

\* the run took the diff path and wrote a unit
RunWroteUnit ==
    /\ runpc = "done"
    /\ ~cmd[1].config.custom
    /\ outcome = "Your SQL migration file"

\* C15: the unit a migration-generation run writes stores, as its snapshot's
\* _meta, the renames and moves that the run's resolution produced (the _meta
\* the diff returned), in each of the three dialects.
C15_MetaOfResolutionStored ==
    RunWroteUnit =>
        \A d \in DOMAIN units : units[d]["snapshot.json"]._meta = DiffMeta(resolved)

(***************************************************************************)
(* Specification of the ways writeResult is reached: called directly with  *)
(* any arguments on a folder earlier runs left, or at the end of a         *)
(* migration-generation run.                                               *)
(***************************************************************************)
InitWriteOrRun == InitWrite \/ InitRun

DirectWriteResultCall ==
    /\ runpc = "none"
    /\ WriteResultCall

NextWriteOrRun ==
    \/ DirectWriteResultCall
    \/ NextRun

SpecWriteOrRun == InitWriteOrRun /\ [][NextWriteOrRun]_vars

\* the unit directory the latest call of writeResult computed
WrittenTags ==
    {prepareMigrationMetadata(Param(call[1], "name", <<>>), words, now, tz).tag :
        words \in RandomWords}

\* C16: with kind custom, writeResult always writes a unit (directory,
\* snapshot and statement file) whose statement file is the fixed placeholder
\* alone, whatever statements it was given; and a migration-generation run
\* with config.custom set writes that unit without running the diff or
\* prompting the oracle.
C16_CustomUnitPlaceholderOnly ==
    /\ (call # <<>> /\ Param(call[1], "type", "none") = "custom") =>
          /\ outcome = "Your SQL migration file"
          /\ \E tag \in WrittenTags :
                /\ tag \in DOMAIN units
                /\ DOMAIN units[tag] = {"snapshot.json", "migration.sql"}
                /\ units[tag]["migration.sql"] = <<CustomSql>>
    /\ (cmd # <<>> /\ cmd[1].config.custom) =>
          /\ runpc # "diff"
          /\ fn = "none"
          /\ rendered = <<>>
          /\ answers = <<>>
          /\ resolved = <<>>
          /\ runpc = "done" =>
                /\ nCalls = 1
                /\ Param(call[1], "type", "none") = "custom"
                /\ call[1].sqlStatements = <<>>

\* writeResult was given statements with kind custom
C16_Witness ==
    /\ nCalls = 1
    /\ Param(call[1], "type", "none") = "custom"
    /\ call[1].sqlStatements # <<>>
    /\ outcome = "Your SQL migration file"

\* the single call of SpecWrite had kind introspect
CalledWithIntrospect ==
    /\ nCalls = 1
    /\ Param(call[1], "type", "none") = "introspect"

\* the header, the joined statements and the end of the block comment
Wrapped(sqlStatements, breakpoints) ==
    <<IntrospectHeader>>
        \o Join(sqlStatements, IF breakpoints THEN BREAKPOINT ELSE "\n")
        \o <<"\n*/">>

\* the block comment the header opens ends with the file, so nothing in the
\* file is executable
Inert(file) ==
    /\ Len(file) >= 2
    /\ file[1] = IntrospectHeader
    /\ \A i \in 2..(Len(file) - 1) : ~ContainsCommentEnd(file[i])
    /\ file[Len(file)] = "\n*/"

C18_ValidationFailureSurfaced ==
    runpc = "failed" =>
        /\ fn = "none"
        /\ rendered = <<>>
        /\ resolved = <<>>
        /\ nCalls = 0
        /\ units = <<>>
        /\ manifest = <<>>
        /\ \/ completion = "rejected"
           \/ (exitCode # <<>> /\ exitCode # <<0>>)

\* the entities of missingItems not yet chosen in a rename answer, in the
\* order of missingItems
UnconsumedPool ==
    LET consumed == {answers[i].from : i \in RenameAnswers}
        Left(x) == x \notin consumed
    IN  SelectSeq(missingItems, Left)

GeneralPath == fn # "none" /\ Len(newItems) > 0 /\ Len(missingItems) > 0

\* C20: on the general path each resolver prompts the oracle exactly once
\* per element of newSet, in the order of newSet, and returns after exactly
\* |newSet| answers; a candidate that comes after the pool has run empty is
\* still prompted, with no rename option, and can only end up created.
C20_OnePromptPerCandidate ==
    GeneralPath =>
        /\ \A i \in DOMAIN rendered : i <= Len(newItems) /\ rendered[i][1] = newItems[i]
        /\ pc = "render" => Len(rendered) = Len(answers) + 1 /\ Len(answers) < Len(newItems)
        /\ pc = "returned" => Len(rendered) = Len(newItems) /\ Len(answers) = Len(newItems)
        /\ Len(answers) = Len(newItems) => pc = "returned"
        /\ \A i \in DOMAIN answers :
              Len(rendered[i]) = 1 =>
                  /\ answers[i] = newItems[i]
                  /\ pc = "returned" => \E k \in DOMAIN result.created :
                                            result.created[k] = newItems[i]

\* a resolver returned after prompting for a candidate with an empty pool
C20_Witness ==
    /\ GeneralPath
    /\ pc = "returned"
    /\ \E i \in DOMAIN rendered : Len(rendered[i]) = 1

(***************************************************************************)
(* Specification of a caller that calls a resolver, and once it returned   *)
(* calls it again with the same two arrays while the oracle repeats the    *)
(* answers it gave during the first call.                                  *)
(***************************************************************************)
\* entities with a schema of their own
ReplayEntities == {e \in NamedWithSchema : e.schema # ""}

InitReplay == InitResolve

\* the call in progress, or the latest one
LastCall == callLog[Len(callLog)]

Completed(c) == "output" \in DOMAIN c

FirstCall ==
    /\ pc = "idle"
    /\ callLog = <<>>
    /\ \/ \E new \in DistinctSeqs(ReplayEntities, MaxLen) :
             \E missing \in DistinctSeqs(ReplayEntities, MaxLen) :
                 NamedCall(new, missing)
       \/ \E new \in DistinctSeqs(Named, MaxLen) :
             \E missing \in DistinctSeqs(Named, MaxLen) :
                 ColumnsCall(new, missing) \/ SchemasCall(new, missing)
    /\ callLog' = <<[fn |-> fn', newSet |-> newItems', missingSet |-> missingItems']>>
    /\ UNCHANGED <<writerVars, clockVars, js, folderName, runVars>>

\* the oracle answers, or aborts, a prompt of the first call
OracleAnswersFirstCall ==
    /\ Len(callLog) = 1
    /\ \/ AnswerNamed
       \/ AnswerColumns
       \/ AnswerSchemas
       \/ Aborted
    /\ UNCHANGED <<writerVars, clockVars, js, folderName, runVars, callLog>>

\* the resolver returns to its caller, which still holds the two arrays
ReturnToCaller ==
    /\ pc = "returned"
    /\ callLog # <<>>
    /\ ~Completed(LastCall)
    /\ LET before == IF Len(callLog) = 1 THEN 0 ELSE Len(callLog[1].prompts)
           answered == IF Len(callLog) = 1 THEN 0 ELSE Len(callLog[1].answers)
       IN  callLog' = [callLog EXCEPT ![Len(callLog)] =
                          @ @@ [output       |-> result,
                                prompts      |-> SubSeq(rendered, before + 1, Len(rendered)),
                                answers      |-> SubSeq(answers, answered + 1, Len(answers)),
                                newAfter     |-> newItems,
                                missingAfter |-> missingItems]]
    /\ pc' = "idle"
    /\ UNCHANGED <<fn, newItems, missingItems, index, leftMissing, result,
                   promptData, rendered, answers, exitCode>>
    /\ UNCHANGED <<writerVars, clockVars, js, folderName, runVars>>

\* the caller calls the same resolver with the same two arrays
SecondCall ==
    /\ pc = "idle"
    /\ Len(callLog) = 1
    /\ Completed(callLog[1])
    /\ CASE fn = "promptNamedWithSchemasConflict" -> NamedCall(newItems, missingItems)
         [] fn = "promptColumnsConflicts"         -> ColumnsCall(newItems, missingItems)
         [] fn = "promptSchemasConflict"          -> SchemasCall(newItems, missingItems)
    /\ callLog' = Append(callLog,
           [fn |-> fn, newSet |-> newItems, missingSet |-> missingItems])
    /\ UNCHANGED <<writerVars, clockVars, js, folderName, runVars>>

\* the oracle gives the k-th prompt of the second call the answer it gave the
\* k-th prompt of the first
OracleRepeatsAnswer ==
    /\ pc = "render"
    /\ Len(callLog) = 2
    /\ LET k == Len(answers) - Len(callLog[1].answers) + 1
       IN  /\ k <= Len(callLog[1].answers)
           /\ \E i \in DOMAIN promptData : promptData[i] = callLog[1].answers[k]
           /\ CASE fn = "promptNamedWithSchemasConflict" -> NamedAnswer(callLog[1].answers[k])
                [] fn = "promptColumnsConflicts"         -> ColumnsAnswer(callLog[1].answers[k])
                [] fn = "promptSchemasConflict"          -> SchemasAnswer(callLog[1].answers[k])
    /\ UNCHANGED <<writerVars, clockVars, js, folderName, runVars, callLog>>

NextReplay ==
    \/ FirstCall
    \/ OracleAnswersFirstCall
    \/ ReturnToCaller
    \/ SecondCall
    \/ OracleRepeatsAnswer

SpecReplay == InitReplay /\ [][NextReplay]_vars

====
